---- MODULE Spec2Model ----
\* A model of the synonomous module (src/index.js): the transformers, getSynonyms
\* and decorateList.  src/index.js holds two copies of the module: lines 1-203
\* (with toTitle and the per-call selection of getSynonyms) and lines 205-379
\* (the earlier release).  Both are modelled; the operators of the second copy
\* carry the suffix _2.
\*
\* A JavaScript string is modelled as a sequence of one-character strings, so
\* that the regular expressions of the source can be modelled character by
\* character.
EXTENDS Integers, Sequences, FiniteSets, TLC

\* ------------------------------------------------------------------ characters

LowerLetters == <<"a","b","c","d","e","f","g","h","i","j","k","l","m",
                  "n","o","p","q","r","s","t","u","v","w","x","y","z">>
UpperLetters == <<"A","B","C","D","E","F","G","H","I","J","K","L","M",
                  "N","O","P","Q","R","S","T","U","V","W","X","Y","Z">>
DigitChars == <<"0","1","2","3","4","5","6","7","8","9">>

\* [a-z]
IsLower(c) == \E i \in DOMAIN LowerLetters : LowerLetters[i] = c
\* [A-Z]
IsUpper(c) == \E i \in DOMAIN UpperLetters : UpperLetters[i] = c
\* \d
IsDigit(c) == \E i \in DOMAIN DigitChars : DigitChars[i] = c
\* [a-z0-9] under the i flag
IsAlnum(c) == IsLower(c) \/ IsUpper(c) \/ IsDigit(c)
\* [\s\-_]
IsSeparator(c) == c \in {" ", "-", "_"}
\* \s
IsSpace(c) == c = " "

\* String.prototype.toUpperCase / toLowerCase, one character
toUpperCaseChar(c) ==
    IF IsLower(c)
    THEN UpperLetters[CHOOSE i \in DOMAIN LowerLetters : LowerLetters[i] = c]
    ELSE c
toLowerCaseChar(c) ==
    IF IsUpper(c)
    THEN LowerLetters[CHOOSE i \in DOMAIN UpperLetters : UpperLetters[i] = c]
    ELSE c

RECURSIVE toUpperCase(_)
toUpperCase(s) ==
    IF s = <<>> THEN <<>> ELSE <<toUpperCaseChar(Head(s))>> \o toUpperCase(Tail(s))

RECURSIVE toLowerCase(_)
toLowerCase(s) ==
    IF s = <<>> THEN <<>> ELSE <<toLowerCaseChar(Head(s))>> \o toLowerCase(Tail(s))

\* The character classes the regular expressions repeat
InClass(c, class) ==
    CASE class = "[A-Z]" -> IsUpper(c)
      [] class = "[^a-z0-9]" -> ~IsAlnum(c)
      [] class = "[\\s\\-_]" -> IsSeparator(c)
      [] class = "[^\\s\\-_]" -> ~IsSeparator(c)

\* The last index of the maximal run of characters of a class that starts at i
\* (s[i] is of the class): what a greedy class+ consumes.
RunEnd(s, i, class) ==
    CHOOSE j \in i..Len(s) :
        /\ \A k \in i..j : InClass(s[k], class)
        /\ (j = Len(s) \/ ~InClass(s[j + 1], class))

\* ------------------------------------------------------- regular expressions

\* s.replace(REGEX_ALL_PUNC_RUN, '_'), scanning from index i
RECURSIVE ReplaceAllPuncRun(_, _)
ReplaceAllPuncRun(s, i) ==
    IF i > Len(s) THEN <<>>
    ELSE IF IsAlnum(s[i]) THEN <<s[i]>> \o ReplaceAllPuncRun(s, i + 1)
    ELSE <<"_">> \o ReplaceAllPuncRun(s, RunEnd(s, i, "[^a-z0-9]") + 1)

\* [^_A-Z]
NotUnderscoreOrUpper(c) == c # "_" /\ ~IsUpper(c)

\* The replacement with [^_] for [^_A-Z]: a capital too is split from the
\* capitals that follow it
RECURSIVE ReplaceCamelCaseOrUnderscore_AnyButUnderscore(_, _)
ReplaceCamelCaseOrUnderscore_AnyButUnderscore(s, i) ==
    IF i > Len(s) THEN <<>>
    ELSE IF s[i] # "_" /\ i < Len(s) /\ IsUpper(s[i + 1])
    THEN LET j == RunEnd(s, i + 1, "[A-Z]")
         IN  <<s[i], "_">> \o SubSeq(s, i + 1, j)
                \o ReplaceCamelCaseOrUnderscore_AnyButUnderscore(s, j + 1)
    ELSE <<s[i]>> \o ReplaceCamelCaseOrUnderscore_AnyButUnderscore(s, i + 1)

\* s.replace(REGEX_CAMEL_CASE_OR_UNDERSCORE, '$1_$2'), scanning from index i
RECURSIVE ReplaceCamelCaseOrUnderscore(_, _)
ReplaceCamelCaseOrUnderscore(s, i) ==
    IF i > Len(s) THEN <<>>
    ELSE IF NotUnderscoreOrUpper(s[i]) /\ i < Len(s) /\ IsUpper(s[i + 1])
    THEN LET j == RunEnd(s, i + 1, "[A-Z]")
         IN  <<s[i], "_">> \o SubSeq(s, i + 1, j) \o ReplaceCamelCaseOrUnderscore(s, j + 1)
    ELSE <<s[i]>> \o ReplaceCamelCaseOrUnderscore(s, i + 1)

\* WITH_UPPER_CASE applied to every match of REGEX_ALL_PUNC_RUN_BEFORE_LETTER,
\* scanning from index i
RECURSIVE ReplaceAllPuncRunBeforeLetter(_, _)
ReplaceAllPuncRunBeforeLetter(s, i) ==
    IF i > Len(s) THEN <<>>
    ELSE IF IsAlnum(s[i]) THEN <<s[i]>> \o ReplaceAllPuncRunBeforeLetter(s, i + 1)
    ELSE LET j == RunEnd(s, i, "[^a-z0-9]")
         IN  IF j = Len(s) THEN <<>>
             ELSE <<toUpperCaseChar(s[j + 1])>> \o ReplaceAllPuncRunBeforeLetter(s, j + 2)

\* A replacement of the initial digit that prefixes nothing
ReplaceInitialDigit_Unprefixed(s) == s

\* s.replace(REGEX_INITIAL_DIGIT, WITH_DOLLAR_PREFIX)
ReplaceInitialDigit(s) ==
    IF s # <<>> /\ IsDigit(s[1]) THEN <<"$">> \o s ELSE s

\* s.replace(REGEX_INITIAL_CAPITAL, WITH_LOWER_CASE)
ReplaceInitialCapital(s) ==
    IF s # <<>> /\ IsUpper(s[1]) THEN <<toLowerCaseChar(s[1])>> \o Tail(s) ELSE s

\* REGEXP_LOWER_CASE_LETTER.test(s)
HasLowerCaseLetter(s) == \E i \in 1..Len(s) : IsLower(s[i])

\* WITH_CAPTIAL_LETTER applied to every match of REGEXP_WORD_SEPARATORS, scanning
\* from index i.  A match at i is a (possibly empty) run of separators, one
\* non-separator and at least one more non-separator; where there is none the
\* character at i is kept and the scan goes on at i + 1.
RECURSIVE ReplaceWordSeparators(_, _)
ReplaceWordSeparators(s, i) ==
    IF i > Len(s) THEN <<>>
    ELSE LET b == IF IsSeparator(s[i]) THEN RunEnd(s, i, "[\\s\\-_]") + 1 ELSE i
         IN  IF b < Len(s) /\ ~IsSeparator(s[b + 1])
             THEN LET e == RunEnd(s, b + 1, "[^\\s\\-_]")
                  IN  <<toUpperCaseChar(s[b])>> \o SubSeq(s, b + 1, e)
                        \o ReplaceWordSeparators(s, e + 1)
             ELSE <<s[i]>> \o ReplaceWordSeparators(s, i + 1)

\* s.replace(REGEXP_CAPITAL_LETTERS, WITH_PREFIXED_SPACE), scanning from index i
RECURSIVE ReplaceCapitalLetters(_, _)
ReplaceCapitalLetters(s, i) ==
    IF i > Len(s) THEN <<>>
    ELSE IF IsUpper(s[i])
    THEN LET j == RunEnd(s, i, "[A-Z]")
         IN  <<" ">> \o SubSeq(s, i, j) \o ReplaceCapitalLetters(s, j + 1)
    ELSE <<s[i]>> \o ReplaceCapitalLetters(s, i + 1)

\* s.replace(REGEXP_OVER_CAPITALIZED_WORDS, WITH_SEPARATE_WORDS), scanning from
\* index i.  ([A-Z]+)([A-Z][a-z]) matches at i when the run of capitals from i
\* has two letters or more and a lower-case letter follows it.
RECURSIVE ReplaceOverCapitalizedWords(_, _)
ReplaceOverCapitalizedWords(s, i) ==
    IF i > Len(s) THEN <<>>
    ELSE IF IsUpper(s[i])
    THEN LET j == RunEnd(s, i, "[A-Z]")
         IN  IF j > i /\ j < Len(s) /\ IsLower(s[j + 1])
             THEN SubSeq(s, i, j - 1) \o <<" ">> \o SubSeq(s, j, j + 1)
                    \o ReplaceOverCapitalizedWords(s, j + 2)
             ELSE <<s[i]>> \o ReplaceOverCapitalizedWords(s, i + 1)
    ELSE <<s[i]>> \o ReplaceOverCapitalizedWords(s, i + 1)

\* String.prototype.trim
RECURSIVE trim(_)
trim(s) ==
    IF s = <<>> THEN <<>>
    ELSE IF IsSpace(s[1]) THEN trim(Tail(s))
    ELSE IF IsSpace(s[Len(s)]) THEN trim(SubSeq(s, 1, Len(s) - 1))
    ELSE s

\* -------------------------------------------------------------- JavaScript values

\* The property names of the records of the model.
PropNames == {"name", "style", "value"}

\* A property that is a string, and a property that is not there
StrProp(s) == [t |-> "string", s |-> s]
UndefProp == [t |-> "undefined", s |-> <<>>]
NoProps == [p \in PropNames |-> UndefProp]

\* A value: t is what typeof gives; s is the string of a string and the decimal
\* form of a number; id is the identity of an object (two objects are the same
\* reference exactly when their ids are equal); props are an object's properties.
Str(s) == [t |-> "string", s |-> s, id |-> 0, props |-> NoProps]
Num(s) == [t |-> "number", s |-> s, id |-> 0, props |-> NoProps]
Undefined == [t |-> "undefined", s |-> <<>>, id |-> 0, props |-> NoProps]
Obj(id, props) == [t |-> "object", s |-> <<>>, id |-> id, props |-> props]

\* An optional argument: given with value v, or omitted (undefined): an omitted
\* selection, an omitted property name, an omitted index
Given(v) == [given |-> TRUE, v |-> v]
Omitted == [given |-> FALSE, v |-> <<>>]
OmittedName == [given |-> FALSE, v |-> ""]
OmittedIndex == [given |-> FALSE, v |-> 0]

\* value + '' (the string coercion of verbatim)
toStringOf(v) ==
    CASE v.t = "string" -> v.s
      [] v.t = "number" -> v.s
      [] v.t = "undefined" -> <<"u","n","d","e","f","i","n","e","d">>
      [] OTHER -> <<"[","o","b","j","e","c","t"," ","O","b","j","e","c","t","]">>

\* item[propName]: the property of a record, undefined where it has none
GetProp(item, propName) ==
    IF propName \in DOMAIN item.props
    THEN [t |-> item.props[propName].t, s |-> item.props[propName].s,
          id |-> 0, props |-> NoProps]
    ELSE Undefined

\* The decimal form of a natural number
RECURSIVE NumberToString(_)
NumberToString(n) ==
    IF n < 10 THEN <<DigitChars[n + 1]>>
    ELSE NumberToString(n \div 10) \o <<DigitChars[(n % 10) + 1]>>

\* Some of the properties every array inherits from Array.prototype and
\* Object.prototype
ArrayPrototypeKeys ==
    { <<"c","o","n","s","t","r","u","c","t","o","r">>,
      <<"c","o","n","c","a","t">>, <<"j","o","i","n">>, <<"p","o","p">>,
      <<"p","u","s","h">>, <<"s","o","r","t">>, <<"m","a","p">>,
      <<"f","o","r","E","a","c","h">>, <<"t","o","S","t","r","i","n","g">>,
      <<"v","a","l","u","e","O","f">> }

LengthKey == <<"l","e","n","g","t","h">>

\* A JavaScript array: elems are its elements (index i of the source is
\* elems[i + 1]), own are its other own properties, a function from keys.
Array(elems) == [elems |-> elems, own |-> <<>>]

\* key is the index of an element of the array
IsIndexOf(array, key) ==
    \E i \in 0..(Len(array.elems) - 1) : NumberToString(i) = key

\* key in array
HasProperty(array, key) ==
    \/ IsIndexOf(array, key)
    \/ key = LengthKey
    \/ key \in DOMAIN array.own
    \/ key \in ArrayPrototypeKeys

\* array[key], for a key the array has as an own property
GetProperty(array, key) ==
    IF IsIndexOf(array, key)
    THEN array.elems[(CHOOSE i \in 0..(Len(array.elems) - 1) : NumberToString(i) = key) + 1]
    ELSE IF key = LengthKey THEN Num(NumberToString(Len(array.elems)))
    ELSE array.own[key]

\* The own keys of an array
OwnKeys(array) ==
    {NumberToString(i) : i \in 0..(Len(array.elems) - 1)} \cup {LengthKey}
        \cup DOMAIN array.own

\* array[key] = value: an element is replaced, another key becomes an own
\* property.  (A write to length or to an index past the end is not modelled:
\* decorateList writes no key the array has, and no key that begins with a digit.)
SetProperty(array, key, value) ==
    IF IsIndexOf(array, key)
    THEN [array EXCEPT !.elems[(CHOOSE i \in 0..(Len(array.elems) - 1) :
                                    NumberToString(i) = key) + 1] = value]
    ELSE IF key = LengthKey THEN array
    ELSE [array EXCEPT !.own =
            [k \in (DOMAIN array.own) \cup {key} |->
                IF k = key THEN value ELSE array.own[k]]]

\* ------------------------------------------------------------------ the state

VARIABLES
    proto,   \* Synonomous.prototype: the shared defaults
    self,    \* the instance: the properties the constructor set on it
    list,    \* the array that decorateList decorates
    last     \* the last call: its arguments, the list before it, its result

vars == <<proto, self, list, last>>

\* this.transformations and this.propName: the instance's own property, else
\* the prototype's
this_transformations ==
    IF self.transformations.given THEN self.transformations.v ELSE proto.transformations
this_propName ==
    IF self.propName.given THEN self.propName.v ELSE proto.propName

\* ---------------------------------------------------------------- transformers

verbatim(key) == toStringOf(key)

toCamelCase(key) ==
    ReplaceInitialCapital(ReplaceInitialDigit(ReplaceAllPuncRunBeforeLetter(key, 1)))

toAllCaps(key) ==
    toUpperCase(ReplaceInitialDigit(
        ReplaceCamelCaseOrUnderscore(ReplaceAllPuncRun(key, 1), 1)))

toTitle(key) ==
    trim(ReplaceOverCapitalizedWords(
        ReplaceCapitalLetters(
            ReplaceWordSeparators(
                IF HasLowerCaseLetter(key) THEN key ELSE toLowerCase(key), 1), 1), 1))

\* The names under which this[key] is a transformer function, in the first and
\* in the second copy of the module
Transformers == {"verbatim", "toCamelCase", "toAllCaps", "toTitle"}
Transformers_2 == {"verbatim", "toCamelCase", "toAllCaps"}

\* this[key](name)
Transform(key, name) ==
    CASE key = "verbatim" -> verbatim(Str(name))
      [] key = "toCamelCase" -> toCamelCase(name)
      [] key = "toAllCaps" -> toAllCaps(name)
      [] key = "toTitle" -> toTitle(name)

\* ------------------------------------------------------------------ getSynonyms

\* What a call gives: it returned value, or it threw error with message
Returned(value) == [threw |-> FALSE, error |-> "", message |-> "", value |-> value]
Threw(error, message) == [threw |-> TRUE, error |-> error, message |-> message, value |-> <<>>]

\* The forEach with a name that is no function passed over instead of thrown on
RECURSIVE getSynonymsEach_SkipUnknown(_, _, _, _)
getSynonymsEach_SkipUnknown(transformers, name, keys, synonyms) ==
    IF keys = <<>> THEN Returned(synonyms)
    ELSE LET key == Head(keys)
         IN  IF key \notin transformers
             THEN getSynonymsEach_SkipUnknown(transformers, name, Tail(keys), synonyms)
             ELSE LET synonym == Transform(key, name)
                  IN  getSynonymsEach_SkipUnknown(transformers, name, Tail(keys),
                        IF synonym # <<>> /\ ~HasProperty(Array(synonyms), synonym)
                        THEN Append(synonyms, synonym)
                        ELSE synonyms)

\* The forEach of getSynonyms over the transformer names keys, with the array
\* synonyms built so far
RECURSIVE getSynonymsEach(_, _, _, _)
getSynonymsEach(transformers, name, keys, synonyms) ==
    IF keys = <<>> THEN Returned(synonyms)
    ELSE LET key == Head(keys)
         IN  IF key \notin transformers
             THEN Threw("ReferenceError", key)
             ELSE LET synonym == Transform(key, name)
                  IN  getSynonymsEach(transformers, name, Tail(keys),
                        IF synonym # <<>> /\ ~HasProperty(Array(synonyms), synonym)
                        THEN Append(synonyms, synonym)
                        ELSE synonyms)

\* getSynonyms of the first copy: transformations is the optional selection
getSynonyms(name, transformations) ==
    IF name.t = "string" /\ name.s # <<>>
    THEN getSynonymsEach(Transformers, name.s,
            IF transformations.given THEN transformations.v ELSE this_transformations,
            <<>>)
    ELSE Returned(<<>>)

\* getSynonyms of the second copy: it has the one parameter name, a second
\* argument is ignored
getSynonyms_2(name, transformations) ==
    IF name.t = "string" /\ name.s # <<>>
    THEN getSynonymsEach(Transformers_2, name.s, this_transformations, <<>>)
    ELSE Returned(<<>>)

\* ----------------------------------------------------------------- decorateList

\* The inner forEach without its test (synonym in list): every synonym is
\* written, also over a key the list has
RECURSIVE decorateSynonyms_Overwrite(_, _, _)
decorateSynonyms_Overwrite(array, synonyms, item) ==
    IF synonyms = <<>> THEN array
    ELSE decorateSynonyms_Overwrite(
            SetProperty(array, ReplaceInitialDigit(Head(synonyms)), item),
            Tail(synonyms), item)

\* The inner forEach of decorateList: the synonyms of one item
RECURSIVE decorateSynonyms(_, _, _)
decorateSynonyms(array, synonyms, item) ==
    IF synonyms = <<>> THEN array
    ELSE LET synonym == ReplaceInitialDigit(Head(synonyms))
         IN  decorateSynonyms(
                IF ~HasProperty(array, synonym)
                THEN SetProperty(array, synonym, item)
                ELSE array,
                Tail(synonyms), item)

\* The name decorateList makes synonyms of
nameOf(item, propName) ==
    IF item.t # "object" THEN item ELSE GetProp(item, propName)

\* The outer forEach of decorateList, first copy
RECURSIVE decorateElements(_, _, _)
decorateElements(array, elements, propName) ==
    IF elements = <<>> THEN Returned(array)
    ELSE LET item == Head(elements)
             got == getSynonyms(nameOf(item, propName), Omitted)
         IN  IF got.threw
             THEN [threw |-> TRUE, error |-> got.error, message |-> got.message,
                   value |-> array]
             ELSE decorateElements(decorateSynonyms(array, got.value, item),
                                   Tail(elements), propName)

\* The outer forEach of decorateList, second copy
RECURSIVE decorateElements_2(_, _, _)
decorateElements_2(array, elements, propName) ==
    IF elements = <<>> THEN Returned(array)
    ELSE LET item == Head(elements)
             got == getSynonyms_2(nameOf(item, propName), Omitted)
         IN  IF got.threw
             THEN [threw |-> TRUE, error |-> got.error, message |-> got.message,
                   value |-> array]
             ELSE decorateElements_2(decorateSynonyms(array, got.value, item),
                                     Tail(elements), propName)

\* list[index]: undefined where the list has no such element
ElementAt(array, index) ==
    IF index \in 0..(Len(array.elems) - 1) THEN array.elems[index + 1] ELSE Undefined

\* decorateList of the first copy.  index and propName are optional: with
\* index omitted the call is decorateList(list, propName), the arguments
\* promoted.  The value of the result is the list as the call leaves it, also
\* when getSynonyms threw.
decorateList(index, array, propName) ==
    decorateElements(array,
        IF index.given THEN <<ElementAt(array, index.v)>> ELSE array.elems,
        IF propName.given THEN propName.v ELSE this_propName)

\* String(list), the property name the second copy uses once it has promoted
\* its arguments: no record of the model has a property of that name
ListAsPropName == "[object Object]"

\* decorateList of the second copy: with index omitted, propName = list
decorateList_2(index, array, propName) ==
    decorateElements_2(array,
        IF index.given THEN <<ElementAt(array, index.v)>> ELSE array.elems,
        IF index.given
        THEN (IF propName.given THEN propName.v ELSE this_propName)
        ELSE ListAsPropName)

\* ------------------------------------------------------------------ the inputs

\* The longest string drawn as a name, and the longest list decorated
MaxLen == 3
MaxList == 2

\* The characters the names are made of: lower case, upper case, digit,
\* punctuation and white space
Alphabet == {"a", "A", "b", "0", "-", "_", " "}

RECURSIVE StringsOfLen(_)
StringsOfLen(n) ==
    IF n = 0 THEN {<<>>}
    ELSE {Append(s, c) : s \in StringsOfLen(n - 1), c \in Alphabet}

\* Names of the documentation, and names that are properties of every array
SampleNames ==
    { <<"b","o","r","d","e","r","L","e","f","t">>,
      <<"b","a","c","k","g","r","o","u","n","d","-","c","o","l","o","r">>,
      <<"l","e","n","g","t","h">>,
      <<"p","o","p">> }

Names == UNION {StringsOfLen(n) : n \in 0..MaxLen} \cup SampleNames

\* The values getSynonyms is called with: strings, and values that are no string
NameValues == {Str(s) : s \in Names} \cup {Undefined, Num(<<"7">>)}

\* The selections: of transformers, of names that are no property of the
\* instance ("bogus") and of names of properties that are no function ("propName")
Selections ==
    { <<>>, <<"verbatim">>, <<"toCamelCase">>, <<"toAllCaps">>, <<"toTitle">>,
      <<"verbatim", "toCamelCase">>, <<"toCamelCase", "verbatim">>,
      <<"verbatim", "verbatim">>,
      <<"verbatim", "toAllCaps", "toCamelCase">>,
      <<"bogus">>, <<"verbatim", "bogus">>, <<"bogus", "verbatim">>,
      <<"toAllCaps", "propName", "bogus">> }

\* The selections given to the constructor
InstanceSelections ==
    { <<"verbatim">>, <<"verbatim", "toAllCaps", "toCamelCase">>, <<"toCamelCase", "bogus">> }

\* The elements of the lists: strings, a number, records
Record1 == Obj(1, [NoProps EXCEPT !["name"] = StrProp(<<"a","-","b">>),
                                  !["style"] = StrProp(<<"c">>)])
Record2 == Obj(2, [NoProps EXCEPT !["style"] = StrProp(<<"0","c">>)])

Elements ==
    { Str(<<"a","-","b">>), Str(<<"a","B">>), Str(<<"0">>), Num(<<"7">>),
      Record1, Record2 }

RECURSIVE ListsOfLen(_)
ListsOfLen(n) ==
    IF n = 0 THEN {<<>>}
    ELSE {Append(l, e) : l \in ListsOfLen(n - 1), e \in Elements}

Lists == UNION {ListsOfLen(n) : n \in 0..MaxList}

\* Synonomous.prototype
Prototype == [transformations |-> <<"verbatim", "toCamelCase">>, propName |-> "name"]

\* new Synonomous(transformations, propName)
Synonomous(transformations, propName) ==
    [transformations |-> transformations, propName |-> propName]

\* -------------------------------------------------------------------- the calls

NoCall ==
    [op |-> "none", copy |-> 0, name |-> Undefined, sel |-> Omitted,
     index |-> OmittedIndex, prop |-> OmittedName, pre |-> Array(<<>>),
     got |-> Returned(<<>>), out |-> <<>>]

\* synonomous.getSynonyms(name, sel), first copy.  The calls of getSynonyms and
\* of the transformers change nothing, so one call is followed from each state
\* the instance can be in.
GetSynonyms(name, sel) ==
    /\ last' = [NoCall EXCEPT !.op = "getSynonyms", !.copy = 1, !.name = name,
                              !.sel = sel, !.pre = list,
                              !.got = getSynonyms(name, sel)]
    /\ UNCHANGED <<proto, self, list>>

\* synonomous.getSynonyms(name, sel), second copy
GetSynonyms_2(name, sel) ==
    /\ last' = [NoCall EXCEPT !.op = "getSynonyms", !.copy = 2, !.name = name,
                              !.sel = sel, !.pre = list,
                              !.got = getSynonyms_2(name, sel)]
    /\ UNCHANGED <<proto, self, list>>

\* synonomous.verbatim(name) and the other transformers
Verbatim(name) ==
    /\ last' = [NoCall EXCEPT !.op = "verbatim", !.name = name, !.out = verbatim(name)]
    /\ UNCHANGED <<proto, self, list>>

ToCamelCase(name) ==
    /\ last' = [NoCall EXCEPT !.op = "toCamelCase", !.name = name,
                              !.out = toCamelCase(name.s)]
    /\ UNCHANGED <<proto, self, list>>

ToAllCaps(name) ==
    /\ last' = [NoCall EXCEPT !.op = "toAllCaps", !.name = name,
                              !.out = toAllCaps(name.s)]
    /\ UNCHANGED <<proto, self, list>>

ToTitle(name) ==
    /\ last' = [NoCall EXCEPT !.op = "toTitle", !.name = name,
                              !.out = toTitle(name.s)]
    /\ UNCHANGED <<proto, self, list>>

\* synonomous.decorateList(index, list, prop), first copy.  last records the
\* call when it is the observed one, the last call of the run; the calls before
\* it only decorate the list.
DecorateList(index, prop, observed) ==
    LET r == decorateList(index, list, prop)
    IN  /\ list' = r.value
        /\ last' = IF observed
                   THEN [NoCall EXCEPT !.op = "decorateList", !.copy = 1,
                                       !.index = index, !.prop = prop, !.pre = list,
                                       !.got = [r EXCEPT !.value = <<>>]]
                   ELSE last
        /\ UNCHANGED <<proto, self>>

\* synonomous.decorateList(index, list, prop), second copy
DecorateList_2(index, prop, observed) ==
    LET r == decorateList_2(index, list, prop)
    IN  /\ list' = r.value
        /\ last' = IF observed
                   THEN [NoCall EXCEPT !.op = "decorateList", !.copy = 2,
                                       !.index = index, !.prop = prop, !.pre = list,
                                       !.got = [r EXCEPT !.value = <<>>]]
                   ELSE last
        /\ UNCHANGED <<proto, self>>

\* The arguments of decorateList: no index, an index of the list, the index
\* past its end; no property name, or one
Indexes == {OmittedIndex} \cup {Given(i) : i \in 0..Len(list.elems)}
PropArgs == {OmittedName, Given("name"), Given("style")}

\* ------------------------------------------------------------ the specifications

\* An instance decorating a list, any number of times
Init ==
    /\ proto = Prototype
    /\ self \in {Synonomous(t, p) :
                    t \in {Omitted} \cup {Given(x) : x \in InstanceSelections},
                    p \in {OmittedName, Given("style")}}
    /\ list \in {Array(l) : l \in Lists}
    /\ last = NoCall

CallDecorateList ==
    /\ last.op = "none"
    /\ \E index \in Indexes, prop \in PropArgs, observed \in BOOLEAN :
            DecorateList(index, prop, observed)
CallDecorateList_2 ==
    /\ last.op = "none"
    /\ \E index \in Indexes, prop \in PropArgs, observed \in BOOLEAN :
            DecorateList_2(index, prop, observed)

Next ==
    \/ CallDecorateList
    \/ CallDecorateList_2

Spec == Init /\ [][Next]_vars

\* An instance asked for synonyms, and the transformers called directly
InitSyn ==
    /\ proto = Prototype
    /\ self \in {Synonomous(t, OmittedName) :
                    t \in {Omitted} \cup {Given(x) : x \in InstanceSelections}}
    /\ list = Array(<<>>)
    /\ last = NoCall

SelectionArgs == {Omitted} \cup {Given(x) : x \in Selections}

CallGetSynonyms ==
    last.op = "none" /\ \E name \in NameValues, sel \in SelectionArgs : GetSynonyms(name, sel)
CallGetSynonyms_2 ==
    last.op = "none" /\ \E name \in NameValues, sel \in SelectionArgs : GetSynonyms_2(name, sel)
CallVerbatim == last.op = "none" /\ \E name \in NameValues : Verbatim(name)
CallToCamelCase == last.op = "none" /\ \E s \in Names : ToCamelCase(Str(s))
CallToAllCaps == last.op = "none" /\ \E s \in Names : ToAllCaps(Str(s))
CallToTitle == last.op = "none" /\ \E s \in Names : ToTitle(Str(s))

NextSyn ==
    \/ CallGetSynonyms
    \/ CallGetSynonyms_2
    \/ CallVerbatim
    \/ CallToCamelCase
    \/ CallToAllCaps
    \/ CallToTitle

SpecSyn == InitSyn /\ [][NextSyn]_vars

\* ------------------------------------------------------------------ the claims

\* What the observed call of decorateList was asked to do: the elements it was to
\* make synonyms of, and the property name the record labels were to come from
CallElements ==
    IF last.index.given THEN <<ElementAt(last.pre, last.index.v)>> ELSE last.pre.elems
CallPropName == IF last.prop.given THEN last.prop.v ELSE this_propName

\* The keys the observed call added to the list
NewKeys == (DOMAIN list.own) \ (DOMAIN last.pre.own)

\* The synonyms getSynonyms returns for a name under the instance's selection,
\* and the keys decorateList makes of them
SynonymsOf(name) ==
    LET got == getSynonyms(name, Omitted)
    IN  IF got.threw THEN {} ELSE {got.value[i] : i \in DOMAIN got.value}
KeysOf(name) == {ReplaceInitialDigit(k) : k \in SynonymsOf(name)}

\* The selection a call of getSynonyms is to apply: the one passed, else the
\* instance's
CallSelection == IF last.sel.given THEN last.sel.v ELSE this_transformations
CallTransformers == IF last.copy = 2 THEN Transformers_2 ELSE Transformers
UsableName == last.name.t = "string" /\ last.name.s # <<>>

\* C1: decorateList changes the value of no key the list had when the call
\* started (indices, length, synonym keys), and a key the call adds keeps the
\* element that added it first; a colliding synonym is dropped without an error.
C1_NoExistingKeyChanged ==
    last.op = "decorateList" =>
        /\ \A k \in OwnKeys(last.pre) :
                k \in OwnKeys(list) /\ GetProperty(list, k) = GetProperty(last.pre, k)
        /\ last.copy = 1 =>
                \A k \in NewKeys :
                    \E i \in DOMAIN CallElements :
                        /\ k \in KeysOf(nameOf(CallElements[i], CallPropName))
                        /\ list.own[k] = CallElements[i]
                        /\ \A j \in 1..(i - 1) :
                                k \notin KeysOf(nameOf(CallElements[j], CallPropName))
        /\ (\A i \in DOMAIN this_transformations :
                this_transformations[i] \in CallTransformers) => ~last.got.threw

\* C1 witness: the observed call made a synonym of an element that the list
\* already had as a key of another element
C1_Witness ==
    /\ last.op = "decorateList"
    /\ ~last.got.threw
    /\ \E i \in DOMAIN CallElements :
          \E k \in KeysOf(nameOf(CallElements[i], CallPropName)) :
              k \in DOMAIN last.pre.own /\ last.pre.own[k] # CallElements[i]

\* The outputs of the transformers of a selection for a name, blank ones left out
RECURSIVE Outputs(_, _)
Outputs(keys, name) ==
    IF keys = <<>> THEN <<>>
    ELSE LET synonym == Transform(Head(keys), name)
         IN  (IF synonym = <<>> THEN <<>> ELSE <<synonym>>) \o Outputs(Tail(keys), name)

\* A sequence with every element that occurred earlier removed
RECURSIVE FirstOccurrences(_, _)
FirstOccurrences(seq, seen) ==
    IF seq = <<>> THEN <<>>
    ELSE IF Head(seq) \in seen THEN FirstOccurrences(Tail(seq), seen)
    ELSE <<Head(seq)>> \o FirstOccurrences(Tail(seq), seen \cup {Head(seq)})

\* C2: the list getSynonyms returns contains no string twice: it is the non-empty
\* transformer outputs in selection order, first occurrences only.
C2_SynonymsUnique ==
    (last.op = "getSynonyms" /\ last.copy = 1 /\ UsableName /\ ~last.got.threw) =>
        /\ \A i, j \in DOMAIN last.got.value :
                last.got.value[i] = last.got.value[j] => i = j
        /\ last.got.value = FirstOccurrences(Outputs(CallSelection, last.name.s), {})

\* C3: getSynonyms(s, ["verbatim"]) returns [s] for every non-blank string s.
C3_VerbatimAlone ==
    (last.op = "getSynonyms" /\ last.copy = 1 /\ UsableName
        /\ last.sel = Given(<<"verbatim">>)) =>
        last.got = Returned(<<last.name.s>>)

\* The first name of a selection that is no transformer function
FirstUnknown(keys, transformers) ==
    keys[CHOOSE i \in DOMAIN keys :
            /\ keys[i] \notin transformers
            /\ \A j \in 1..(i - 1) : keys[j] \in transformers]

HasDigit(s) == \E i \in DOMAIN s : IsDigit(s[i])

\* C5 as claimed: verbatim and toAllCaps are idempotent for every string.
C5_Idempotent ==
    /\ last.op = "verbatim" => verbatim(Str(last.out)) = last.out
    /\ last.op = "toAllCaps" => toAllCaps(last.out) = last.out

\* C5 as amended: verbatim is idempotent for every string, toAllCaps for every
\* string that contains no digit.
C5_IdempotentWithoutDigit ==
    /\ last.op = "verbatim" => verbatim(Str(last.out)) = last.out
    /\ (last.op = "toAllCaps" /\ ~HasDigit(last.name.s)) =>
            toAllCaps(last.out) = last.out

\* C5 witness: toAllCaps split a string without a digit at a capital
C5_Witness ==
    /\ last.op = "toAllCaps"
    /\ ~HasDigit(last.name.s)
    /\ Len(last.out) > Len(last.name.s)

\* The first of the elements of the observed call that has k among the synonyms
\* of its label
FirstWithSynonym(k) ==
    CallElements[CHOOSE i \in DOMAIN CallElements :
        /\ k \in SynonymsOf(nameOf(CallElements[i], CallPropName))
        /\ \A j \in 1..(i - 1) :
                k \notin SynonymsOf(nameOf(CallElements[j], CallPropName))]

\* C6: after decorateList(list), every synonym k that getSynonyms returns for the
\* label of an element is a key of the list; it references the first element
\* that has the synonym, unless the list had the key before the call.
C6_EverySynonymIsKey ==
    (last.op = "decorateList" /\ last.copy = 1 /\ ~last.index.given
        /\ ~last.got.threw) =>
        \A i \in DOMAIN CallElements :
            \A k \in SynonymsOf(nameOf(CallElements[i], CallPropName)) :
                /\ HasProperty(list, k)
                /\ ~HasProperty(last.pre, k) => GetProperty(list, k) = FirstWithSynonym(k)

\* C7: decorateList(list, propPath) and decorateList(list) on a list of records
\* take the label of each record from the property propPath names, or the
\* instance's default names: the keys of each label are keys of the list, and
\* every key added references a record that has it among the keys of that
\* property.
C7_LabelFromPropPath ==
    (last.op = "decorateList" /\ ~last.index.given /\ ~last.got.threw
        /\ \A i \in DOMAIN CallElements : CallElements[i].t = "object") =>
        /\ \A i \in DOMAIN CallElements :
                \A k \in KeysOf(GetProp(CallElements[i], CallPropName)) :
                    HasProperty(list, k)
        /\ \A k \in NewKeys :
                \E i \in DOMAIN CallElements :
                    /\ list.own[k] = CallElements[i]
                    /\ k \in KeysOf(GetProp(CallElements[i], CallPropName))

\* C8: getSynonyms(label, selection) applies the transformers of the selection
\* passed to the call, and those of the instance's selection, or of the shared
\* default, only when none is passed; the call changes neither.
C8_PerCallSelection ==
    /\ (last.op = "getSynonyms" /\ UsableName) =>
            last.got = getSynonymsEach(CallTransformers, last.name.s, CallSelection, <<>>)
    /\ proto = Prototype

\* C9: decorateList(index, list) adds only keys that are synonyms of the label of
\* list[index], each referencing list[index], and none where list[index] has no
\* usable label.
C9_OnlyIndexedElement ==
    (last.op = "decorateList" /\ last.copy = 1 /\ last.index.given) =>
        \A k \in NewKeys :
            /\ k \in SynonymsOf(nameOf(CallElements[1], CallPropName))
            /\ list.own[k] = CallElements[1]

\* C10: the output of verbatim has no "$" prefixed, and where it is the index of
\* an element of the list decorateList adds no property for it and leaves the
\* element as it was.  (With verbatim the one transformer selected, an element
\* whose label is an index adds nothing.)
C10_VerbatimIndexSkipped ==
    (last.op = "decorateList" /\ last.copy = 1
        /\ this_transformations = <<"verbatim">>) =>
        \A i \in DOMAIN CallElements :
            LET name == nameOf(CallElements[i], CallPropName)
            IN  (name.t = "string" /\ IsIndexOf(last.pre, verbatim(name))) =>
                    /\ verbatim(name) = name.s
                    /\ list.elems = last.pre.elems
                    /\ ~\E k \in NewKeys : list.own[k] = CallElements[i]

\* The string toCamelCase and toAllCaps have rewritten when they come to test its
\* initial character: the name of the observed call with its runs of punctuation
\* taken out
Rewritten ==
    IF last.op = "toCamelCase" THEN ReplaceAllPuncRunBeforeLetter(last.name.s, 1)
    ELSE ReplaceCamelCaseOrUnderscore(ReplaceAllPuncRun(last.name.s, 1), 1)

\* The keys that are the indices of some list: the decimal forms of the naturals
IsPositionalIndex(s) ==
    /\ s # <<>>
    /\ \A i \in DOMAIN s : IsDigit(s[i])
    /\ (Len(s) > 1 => s[1] # "0")

\* C11: the results of toCamelCase and toAllCaps never begin with a digit: a
\* rewritten string that begins with a digit is returned with "$" before it, so
\* no result of these transformers is a positional index of a list.
C11_NoInitialDigit ==
    (last.op \in {"toCamelCase", "toAllCaps"}) =>
        /\ last.out # <<>> => ~IsDigit(last.out[1])
        /\ (Rewritten # <<>> /\ IsDigit(Rewritten[1])) =>
                last.out = <<"$">> \o (IF last.op = "toAllCaps"
                                         THEN toUpperCase(Rewritten) ELSE Rewritten)
        /\ ~IsPositionalIndex(last.out)

\* C11 witness: toCamelCase took the punctuation from before a digit, which then
\* began the rewritten string, and returned it behind "$"
C11_Witness ==
    /\ last.op = "toCamelCase"
    /\ Rewritten # <<>>
    /\ ~IsDigit(last.name.s[1])
    /\ IsDigit(Rewritten[1])
    /\ last.out = <<"$">> \o Rewritten

\* The label of an element as documented: the property of a record, and the
\* element itself coerced to a string where it is no record
LabelOf(item) ==
    IF item.t = "object" THEN GetProp(item, CallPropName) ELSE Str(toStringOf(item))

\* C12: in decorateList every selected element that is no record (a number as
\* well as a string) is coerced to a string and that string is its label: the
\* keys made of the synonyms of the string are keys of the list after the call,
\* and a key the call added references an element that has it.
C12_ElementCoercedToLabel ==
    (last.op = "decorateList" /\ ~last.got.threw) =>
        \A i \in DOMAIN CallElements :
            (CallElements[i].t \in {"string", "number"}) =>
                \A k \in KeysOf(LabelOf(CallElements[i])) :
                    /\ HasProperty(list, k)
                    /\ k \in NewKeys =>
                            \E j \in DOMAIN CallElements :
                                /\ list.own[k] = CallElements[j]
                                /\ k \in KeysOf(LabelOf(CallElements[j]))

\* The words of a string: its maximal runs of characters that are no white
\* space, hyphen or underscore, from index i on
RECURSIVE Words(_, _)
Words(s, i) ==
    IF i > Len(s) THEN <<>>
    ELSE IF IsSeparator(s[i]) THEN Words(s, RunEnd(s, i, "[\\s\\-_]") + 1)
    ELSE LET e == RunEnd(s, i, "[^\\s\\-_]")
         IN  <<SubSeq(s, i, e)>> \o Words(s, e + 1)

\* A word with its first letter a capital and the rest as it was
Capitalized(w) == <<toUpperCaseChar(w[1])>> \o Tail(w)

\* A string made of words in separators: it has a word, and no word has a
\* capital after its first character (which would make it two camel case words)
IsSeparatedWords(s) ==
    /\ Words(s, 1) # <<>>
    /\ \A i \in DOMAIN Words(s, 1) :
            \A j \in 2..Len(Words(s, 1)[i]) : ~IsUpper(Words(s, 1)[i][j])

\* C13: for an input of words separated by runs of white space, hyphen or
\* underscore, toTitle returns the words of the input, those of one character
\* too, each with its first letter a capital and the rest as it was: the result
\* has no hyphen and no underscore and no word of it starts in lower case.
C13_TitleCapitalizesEveryWord ==
    (last.op = "toTitle" /\ IsSeparatedWords(last.name.s)) =>
        /\ \A i \in DOMAIN last.out : last.out[i] \notin {"-", "_"}
        /\ \A i \in DOMAIN Words(last.out, 1) : ~IsLower(Words(last.out, 1)[i][1])
        /\ Words(last.out, 1) =
                [i \in DOMAIN Words(last.name.s, 1) |->
                    Capitalized(Words(last.name.s, 1)[i])]

====
